---- MODULE Spec2Model ----
(***************************************************************************)
(* Model of main.py: the carbon-footprint session (main), the record store *)
(* (append_to_csv), the trend renderer (generate_graph) and the report     *)
(* generator (create_report).                                              *)
(*                                                                         *)
(* Numbers: a value typed at a prompt is held in thousandths (10 kWh is    *)
(* 10000), a footprint in millionths (3.93 is 3930000), so that the        *)
(* coefficients 0.233, 0.12 and 0.5 are the integers 233, 120 and 500 and  *)
(* the arithmetic is exact.  Terminal lines are sequences of characters.   *)
(* A file of the store is a sequence of lines, a line a sequence of        *)
(* fields, a field a string.                                               *)
(***************************************************************************)
EXTENDS Integers, Sequences, FiniteSets, TLC

VARIABLES
    store,            \* client_data.csv: [exists, lines]
    image,            \* carbon_trends.png: [exists, chart]
    dirs,             \* directories that exist, as paths
    reports,          \* files written by create_report: path -> content
    stdout,           \* what the program printed, in order
    pc,               \* where main() is
    energy_kwh, transport_km, waste_kg, total_footprint,   \* main's locals
    client_data,      \* main's accumulator of this run
    idx,              \* position of main's report loop in client_data
    entered,          \* the line input() returned last
    invalid,          \* ValueErrors caught so far
    store0, image0,   \* the store and the image when the run started
    graphCalls, graphReturns, reportCalls,   \* calls made so far
    last,             \* the last direct call of a function and what it did
    calls,            \* direct calls made so far
    cpc, cmode, crec, appended  \* two sessions appending: per session

vars == <<store, image, dirs, reports, stdout, pc, energy_kwh, transport_km,
          waste_kg, total_footprint, client_data, idx, entered, invalid,
          store0, image0, graphCalls, graphReturns, reportCalls, last,
          calls, cpc, cmode, crec, appended>>

sessionVars == <<pc, energy_kwh, transport_km, waste_kg, total_footprint,
                 client_data, idx, entered, invalid, graphCalls,
                 graphReturns, reportCalls>>
concVars == <<calls, cpc, cmode, crec, appended>>

-----------------------------------------------------------------------------
(* Bounds of the model *)

\* accepted submissions in one session
MaxSubmissions == 2
\* rejected numeric entries in one session
MaxInvalid == 1
\* direct calls of the module's functions in one run of the harness
MaxCalls == 3
\* appends of each of the two concurrent sessions
MaxAppends == 2

-----------------------------------------------------------------------------
(* Text *)

Whitespace == {" ", "\t", "\n"}
Digits == <<"0", "1", "2", "3", "4", "5", "6", "7", "8", "9">>
UpperCase == <<"A", "B", "C", "D", "E", "F", "G", "H", "I", "J", "K", "L", "M",
               "N", "O", "P", "Q", "R", "S", "T", "U", "V", "W", "X", "Y", "Z">>
LowerCase == <<"a", "b", "c", "d", "e", "f", "g", "h", "i", "j", "k", "l", "m",
               "n", "o", "p", "q", "r", "s", "t", "u", "v", "w", "x", "y", "z">>

IsDigit(c) == \E i \in DOMAIN Digits : Digits[i] = c
DigitValue(c) == (CHOOSE i \in DOMAIN Digits : Digits[i] = c) - 1

\* str.strip(): drop the leading and the trailing whitespace
RECURSIVE LStrip(_)
LStrip(s) == IF s # <<>> /\ Head(s) \in Whitespace THEN LStrip(Tail(s)) ELSE s
RECURSIVE RStrip(_)
RStrip(s) ==
    IF s # <<>> /\ s[Len(s)] \in Whitespace
    THEN RStrip(SubSeq(s, 1, Len(s) - 1)) ELSE s
Strip(s) == RStrip(LStrip(s))

\* str.lower()
LowerChar(c) ==
    IF \E i \in DOMAIN UpperCase : UpperCase[i] = c
    THEN LowerCase[CHOOSE i \in DOMAIN UpperCase : UpperCase[i] = c]
    ELSE c
Lower(s) == [i \in DOMAIN s |-> LowerChar(s[i])]

\* The digits of s as a number
RECURSIVE DigitsValue(_)
DigitsValue(s) ==
    IF s = <<>> THEN 0
    ELSE 10 * DigitsValue(SubSeq(s, 1, Len(s) - 1)) + DigitValue(s[Len(s)])

AllDigits(s) == \A i \in DOMAIN s : IsDigit(s[i])
DotAt(s) == IF \E i \in DOMAIN s : s[i] = "."
            THEN CHOOSE i \in DOMAIN s : s[i] = "." ELSE 0
Pow10(n) == IF n = 0 THEN 1 ELSE IF n = 1 THEN 10 ELSE IF n = 2 THEN 100 ELSE 1000

\* float(text), for the decimal literals the model's entries use: optional
\* surrounding whitespace, digits, and at most one point with up to three
\* digits after it.  Anything else here raises ValueError.
FloatOk(text) ==
    LET s == Strip(text)
        d == DotAt(s)
    IN  IF d = 0 THEN s # <<>> /\ AllDigits(s)
        ELSE /\ Len(s) > 1
             /\ Len(s) - d <= 3
             /\ AllDigits(SubSeq(s, 1, d - 1))
             /\ AllDigits(SubSeq(s, d + 1, Len(s)))
Float(text) ==
    LET s == Strip(text)
        d == DotAt(s)
    IN  IF d = 0 THEN 1000 * DigitsValue(s)
        ELSE 1000 * DigitsValue(SubSeq(s, 1, d - 1))
             + DigitsValue(SubSeq(s, d + 1, Len(s))) * Pow10(3 - (Len(s) - d))

\* repr(float): the shortest decimal, with at least one digit after the
\* point; n counts units of 10^-scale.
RECURSIVE Fraction(_, _)
Fraction(n, width) ==
    IF width = 0 THEN ""
    ELSE IF n = 0 THEN ""
    ELSE LET unit == IF width = 1 THEN 1 ELSE IF width = 2 THEN 10
                     ELSE IF width = 3 THEN 100 ELSE IF width = 4 THEN 1000
                     ELSE IF width = 5 THEN 10000 ELSE 100000
         IN  ToString(n \div unit) \o Fraction(n % unit, width - 1)
Repr(n, scale) ==
    LET unit == IF scale = 3 THEN 1000 ELSE 1000000
        frac == n % unit
    IN  ToString(n \div unit) \o "." \o
        (IF frac = 0 THEN "0" ELSE Fraction(frac, scale))

-----------------------------------------------------------------------------
(* Records and the files *)

\* The keys of client_details, in the order main() writes them
Columns == <<"Client", "energy_kwh", "transport_km", "waste_kg", "total_footprint">>

\* calculate_footprint(energy, distance, waste), in millionths
calculate_footprint_swapped(energy, distance, waste) ==
    energy * 120 + distance * 233 + waste * 500
calculate_footprint(energy, distance, waste) ==
    energy * 233 + distance * 120 + waste * 500

\* client_details of main()
ClientDetails(client_name, energy, transport, waste, total) ==
    [Client |-> client_name, energy_kwh |-> energy, transport_km |-> transport,
     waste_kg |-> waste, total_footprint |-> total]

\* The line DataFrame([client_data]).to_csv(index=False) writes for a record
Row(rec) ==
    <<rec.Client, Repr(rec.energy_kwh, 3), Repr(rec.transport_km, 3),
      Repr(rec.waste_kg, 3), Repr(rec.total_footprint, 6)>>

NoFile == [exists |-> FALSE, lines |-> <<>>]
File(ls) == [exists |-> TRUE, lines |-> ls]
NoImage == [exists |-> FALSE, chart |-> <<>>]
Image(labels) == [exists |-> TRUE, chart |-> labels]

\* os.path.exists(CSV_FILE) and the mode to_csv is given
OpenModeAlwaysW(st) == "w"
OpenMode(st) == IF st.exists THEN "a" ELSE "w"

\* append_to_csv(client_data): the file afterwards
AppendToCsvHeaderEachTime(st, rec) == File(st.lines \o <<Columns, Row(rec)>>)
AppendToCsv(st, rec) ==
    IF OpenMode(st) = "a"
    THEN File(Append(st.lines, Row(rec)))
    ELSE File(<<Columns, Row(rec)>>)
AppendMessage(rec) == "Data for " \o rec.Client \o " added to CSV."

\* pd.read_csv(CSV_FILE).  No line at all: EmptyDataError.  A line after the
\* first data line with more fields than every line before it: ParserError.
\* Otherwise the first line names the columns; when the data lines are wider
\* than it, their leading fields become the index (shift).
MaxWidth(ls, n) ==
    CHOOSE w \in {Len(ls[j]) : j \in 1..n} : \A j \in 1..n : Len(ls[j]) <= w
Ragged(ls) == \E i \in 3..Len(ls) : Len(ls[i]) > MaxWidth(ls, i - 1)
ReadCsv(st) ==
    IF st.lines = <<>>
    THEN [error |-> "EmptyDataError", columns |-> <<>>, rows |-> <<>>, shift |-> 0]
    ELSE IF Ragged(st.lines)
    THEN [error |-> "ParserError", columns |-> <<>>, rows |-> <<>>, shift |-> 0]
    ELSE [error |-> "none", columns |-> st.lines[1], rows |-> Tail(st.lines),
          shift |-> IF Len(st.lines) > 1 /\ Len(st.lines[2]) > Len(st.lines[1])
                    THEN Len(st.lines[2]) - Len(st.lines[1]) ELSE 0]

HasColumn(df, col) == \E i \in DOMAIN df.columns : df.columns[i] = col
\* df[col]
Column(df, col) ==
    LET p == (CHOOSE i \in DOMAIN df.columns : df.columns[i] = col) + df.shift
    IN  [r \in DOMAIN df.rows |->
            IF p <= Len(df.rows[r]) THEN df.rows[r][p] ELSE "nan"]

\* The columns the plot reads, in the order of lines 55 to 58
PlotColumns == <<"Client", "total_footprint", "energy_kwh", "transport_km", "waste_kg">>

MsgNoData == "No data found! Run the program and add client data first."
MsgColumns == "CSV Columns:"
MsgNoClient == "Error: 'Client' column not found in CSV."
MsgGraphSaved == "Graph saved as 'carbon_trends.png'."

\* generate_graph(): whether it returned or raised, what it printed, the
\* image afterwards, and the columns it read from the frame
GenerateGraph(st, img) ==
    IF ~st.exists
    THEN [status |-> "returned", out |-> <<MsgNoData>>, image |-> img, read |-> <<>>]
    ELSE LET df == ReadCsv(st)
         IN  IF df.error # "none"
             THEN [status |-> df.error, out |-> <<>>, image |-> img, read |-> <<>>]
             ELSE IF ~HasColumn(df, "Client")
             THEN [status |-> "returned", out |-> <<MsgColumns, MsgNoClient>>,
                   image |-> img, read |-> <<>>]
             ELSE IF \E i \in DOMAIN PlotColumns : ~HasColumn(df, PlotColumns[i])
             THEN LET k == CHOOSE i \in DOMAIN PlotColumns :
                               /\ ~HasColumn(df, PlotColumns[i])
                               /\ \A j \in 1..(i - 1) : HasColumn(df, PlotColumns[j])
                  IN  [status |-> "KeyError", out |-> <<MsgColumns>>, image |-> img,
                       read |-> SubSeq(PlotColumns, 1, k - 1)]
             ELSE [status |-> "returned", out |-> <<MsgColumns, MsgGraphSaved>>,
                   image |-> Image(Column(df, "Client")), read |-> PlotColumns]

\* The path main() gives the report of a client, as its components
ReportPath(client_name) == <<"Reports", client_name \o "_report.pdf">>
\* os.path.dirname
Dirname(path) == SubSeq(path, 1, Len(path) - 1)
\* os.makedirs(d, exist_ok=True): d and every directory above it
MakeDirs(ds, d) == ds \cup {SubSeq(d, 1, n) : n \in 1..Len(d)}

\* The text create_report draws, line by line
ReportText(data) ==
    <<"Carbon Footprint Report",
      "Client: " \o data.Client,
      "Energy: " \o Repr(data.energy_kwh, 3) \o " kWh",
      "Transport: " \o Repr(data.transport_km, 3) \o " km",
      "Waste: " \o Repr(data.waste_kg, 3) \o " kg",
      "Footprint: " \o Repr(data.total_footprint, 6) \o " kg CO2",
      "Suggestions:",
      "- Use energy-efficient appliances.",
      "- Carpool or use public transport.",
      "- Recycle and reduce waste.">>

WriteFile(files, path, content) ==
    [p \in DOMAIN files \cup {path} |-> IF p = path THEN content ELSE files[p]]

\* create_report(data, file_path): whether it returned or raised, the
\* directories and the report files afterwards, and what it printed
CreateReportNeedsImage(data, file_path, img, ds, files) ==
    IF ~img.exists
    THEN [status |-> "OSError", dirs |-> MakeDirs(ds, Dirname(file_path)),
          files |-> files, out |-> <<>>]
    ELSE [status |-> "returned", dirs |-> MakeDirs(ds, Dirname(file_path)),
          files |-> WriteFile(files, file_path,
                       [text |-> ReportText(data), graph |-> TRUE, chart |-> img.chart]),
          out |-> <<"Added graph", "PDF Report Created">>]
CreateReport(data, file_path, img, ds, files) ==
    IF Dirname(file_path) = <<>>
    THEN [status |-> "FileNotFoundError", dirs |-> ds, files |-> files, out |-> <<>>]
    ELSE LET made == MakeDirs(ds, Dirname(file_path))
         IN  IF img.exists
             THEN [status |-> "returned", dirs |-> made,
                   files |-> WriteFile(files, file_path,
                       [text |-> ReportText(data), graph |-> TRUE, chart |-> img.chart]),
                   out |-> <<"Added graph", "PDF Report Created">>]
             ELSE [status |-> "returned", dirs |-> made,
                   files |-> WriteFile(files, file_path,
                       [text |-> ReportText(data), graph |-> FALSE, chart |-> <<>>]),
                   out |-> <<"PDF Report Created">>]

-----------------------------------------------------------------------------
(* What the terminal and the file system can hold *)

\* Lines typed at "Energy (kWh): ", "Transport (km): " and "Waste (kg): "
EnergyEntries == {<<"1", "0">>, <<"x", "1">>}
TransportEntries == {<<"5">>, <<>>}
WasteEntries == {<<"2">>, <<" ", "0", ".", "5", " ">>, <<"2", "k", "g">>}
\* Lines typed at "Client Name: "
Names == {"Acme", "Bolt"}
\* Lines typed at "Add another client? (yes/no): "
Answers == {<<"y", "e", "s">>, <<" ", "Y", "e", "S", "\t">>, <<"y">>,
            <<"n", "o">>, <<>>, <<"y", "e", "s", " ", "!">>}

\* A record an earlier run stored
EarlierRecord == ClientDetails("Zeta", 1000, 2000, 3000, calculate_footprint(1000, 2000, 3000))

\* client_data.csv when a run starts: absent, of no bytes, written by earlier
\* runs of this program, or some other table
InitStores ==
    {NoFile,
     File(<<>>),
     File(<<Columns>>),
     File(<<Columns, Row(EarlierRecord)>>),
     File(<<<<"id", "a", "b", "c", "d">>, <<"1", "2", "3", "4", "5">>>>),
     File(<<<<"id", "amount">>>>),
     File(<<<<"id", "amount">>, <<"7", "1.5">>>>)}
\* carbon_trends.png when a run starts: absent, or the image of an earlier run
InitImages == {NoImage, Image(<<"Zeta">>)}

NoCall == [op |-> "none", store |-> NoFile, image |-> NoImage,
           status |-> "none", out |-> <<>>, read |-> <<>>]
GraphCall(st, img, r) ==
    [op |-> "generate_graph", store |-> st, image |-> img,
     status |-> r.status, out |-> r.out, read |-> r.read]

-----------------------------------------------------------------------------
(* main(): one session *)

MsgEnter == "Enter client data:"
MsgInvalid == "Invalid input. Please enter numeric values."
MsgAllDone == "All reports generated successfully."

\* except ValueError: ... continue -- back to the top of the loop
OnValueErrorFallThrough == "name"
OnValueError == "energy"

\* continue_input = input(...).strip().lower(); if continue_input != 'yes': break
ContinueLoop(text) == Lower(Strip(text)) = <<"y", "e", "s">>

\* What follows the loop: generate_graph(), and only then the reports
AfterLoopReportsFirst == "reports"
AfterLoop == "graph"

\* How many client_details main() adds to client_data for one submission
KeepRecord(data, rec) == Append(data, rec)

SessionInit ==
    /\ store \in InitStores
    /\ image \in InitImages
    /\ dirs = {}
    /\ reports = <<>>
    /\ stdout = <<MsgEnter>>
    /\ pc = "energy"
    /\ energy_kwh = 0 /\ transport_km = 0 /\ waste_kg = 0 /\ total_footprint = 0
    /\ client_data = <<>>
    /\ idx = 1
    /\ entered = <<>>
    /\ invalid = 0
    /\ store0 = store /\ image0 = image
    /\ graphCalls = 0 /\ graphReturns = 0 /\ reportCalls = 0
    /\ last = NoCall
    /\ calls = 0
    /\ cpc = <<>> /\ cmode = <<>> /\ crec = <<>> /\ appended = <<>>

Init == SessionInit

\* The except branch of lines 137 to 139
ValueError ==
    /\ invalid < MaxInvalid
    /\ invalid' = invalid + 1
    /\ stdout' = stdout \o <<MsgInvalid, MsgEnter>>
    /\ pc' = OnValueError

\* energy_kwh = float(input("Energy (kWh): "))
ReadEnergy ==
    /\ pc = "energy"
    /\ \E text \in EnergyEntries :
        /\ entered' = text
        /\ IF FloatOk(text)
           THEN /\ energy_kwh' = Float(text)
                /\ pc' = "transport"
                /\ UNCHANGED <<invalid, stdout>>
           ELSE /\ ValueError
                /\ UNCHANGED energy_kwh
    /\ UNCHANGED <<store, image, dirs, reports, transport_km, waste_kg,
                   total_footprint, client_data, idx, store0, image0,
                   graphCalls, graphReturns, reportCalls, last>>
    /\ UNCHANGED concVars

\* transport_km = float(input("Transport (km): "))
ReadTransport ==
    /\ pc = "transport"
    /\ \E text \in TransportEntries :
        /\ entered' = text
        /\ IF FloatOk(text)
           THEN /\ transport_km' = Float(text)
                /\ pc' = "waste"
                /\ UNCHANGED <<invalid, stdout>>
           ELSE /\ ValueError
                /\ UNCHANGED transport_km
    /\ UNCHANGED <<store, image, dirs, reports, energy_kwh, waste_kg,
                   total_footprint, client_data, idx, store0, image0,
                   graphCalls, graphReturns, reportCalls, last>>
    /\ UNCHANGED concVars

\* waste_kg = float(input("Waste (kg): ")), then calculate_footprint
ReadWaste ==
    /\ pc = "waste"
    /\ \E text \in WasteEntries :
        /\ entered' = text
        /\ IF FloatOk(text)
           THEN /\ waste_kg' = Float(text)
                /\ total_footprint' =
                       calculate_footprint(energy_kwh, transport_km, Float(text))
                /\ pc' = "name"
                /\ UNCHANGED <<invalid, stdout>>
           ELSE /\ ValueError
                /\ UNCHANGED <<waste_kg, total_footprint>>
    /\ UNCHANGED <<store, image, dirs, reports, energy_kwh, transport_km,
                   client_data, idx, store0, image0,
                   graphCalls, graphReturns, reportCalls, last>>
    /\ UNCHANGED concVars

\* client_name = input("Client Name: "); client_data.append; append_to_csv
ReadName ==
    /\ pc = "name"
    /\ \E client_name \in Names :
        LET client_details == ClientDetails(client_name, energy_kwh, transport_km,
                                            waste_kg, total_footprint)
        IN  /\ entered' = <<client_name>>
            /\ client_data' = KeepRecord(client_data, client_details)
            /\ store' = AppendToCsv(store, client_details)
            /\ stdout' = Append(stdout, AppendMessage(client_details))
    /\ pc' = "continue"
    /\ UNCHANGED <<image, dirs, reports, energy_kwh, transport_km, waste_kg,
                   total_footprint, idx, invalid, store0, image0,
                   graphCalls, graphReturns, reportCalls, last>>
    /\ UNCHANGED concVars

\* input("Add another client? (yes/no): ") and the break
ReadContinue ==
    /\ pc = "continue"
    /\ \E text \in Answers :
        /\ ContinueLoop(text) => Len(client_data) < MaxSubmissions
        /\ entered' = text
        /\ IF ContinueLoop(text)
           THEN /\ pc' = "energy"
                /\ stdout' = Append(stdout, MsgEnter)
           ELSE /\ pc' = AfterLoop
                /\ UNCHANGED stdout
    /\ UNCHANGED <<store, image, dirs, reports, energy_kwh, transport_km,
                   waste_kg, total_footprint, client_data, idx, invalid,
                   store0, image0, graphCalls, graphReturns, reportCalls, last>>
    /\ UNCHANGED concVars

\* generate_graph() of line 166
CallGenerateGraph ==
    /\ pc = "graph"
    /\ LET r == GenerateGraph(store, image)
       IN  /\ image' = r.image
           /\ stdout' = stdout \o r.out
           /\ last' = GraphCall(store, image, r)
           /\ graphCalls' = graphCalls + 1
           /\ IF r.status = "returned"
              THEN /\ graphReturns' = graphReturns + 1
                   /\ pc' = "reports"
              ELSE /\ UNCHANGED graphReturns
                   /\ pc' = "crashed"
    /\ UNCHANGED <<store, dirs, reports, energy_kwh, transport_km, waste_kg,
                   total_footprint, client_data, idx, entered, invalid,
                   store0, image0, reportCalls>>
    /\ UNCHANGED concVars

\* One turn of the loop of lines 169 to 171
CallCreateReport ==
    /\ pc = "reports"
    /\ idx <= Len(client_data)
    /\ LET client == client_data[idx]
           r == CreateReport(client, ReportPath(client.Client), image, dirs, reports)
       IN  /\ dirs' = r.dirs
           /\ reports' = r.files
           /\ stdout' = stdout \o r.out
           /\ pc' = IF r.status = "returned" THEN "reports" ELSE "crashed"
    /\ idx' = idx + 1
    /\ reportCalls' = reportCalls + 1
    /\ UNCHANGED <<store, image, energy_kwh, transport_km, waste_kg,
                   total_footprint, client_data, entered, invalid,
                   store0, image0, graphCalls, graphReturns, last>>
    /\ UNCHANGED concVars

\* print("All reports generated successfully."), and main() returns
Finish ==
    /\ pc = "reports"
    /\ idx > Len(client_data)
    /\ stdout' = Append(stdout, MsgAllDone)
    /\ pc' = "done"
    /\ UNCHANGED <<store, image, dirs, reports, energy_kwh, transport_km,
                   waste_kg, total_footprint, client_data, idx, entered, invalid,
                   store0, image0, graphCalls, graphReturns, reportCalls, last>>
    /\ UNCHANGED concVars

Next ==
    \/ ReadEnergy
    \/ ReadTransport
    \/ ReadWaste
    \/ ReadName
    \/ ReadContinue
    \/ CallGenerateGraph
    \/ CallCreateReport
    \/ Finish

Spec == Init /\ [][Next]_vars

-----------------------------------------------------------------------------
(* Properties of one session, checked under Spec *)

LoopStates == {"energy", "transport", "waste", "name", "continue"}
NumericPrompts == {"energy", "transport", "waste"}
ExpectedHeader ==
    <<"Client", "energy_kwh", "transport_km", "waste_kg", "total_footprint">>
PathsOfThisRun == {ReportPath(client_data[i].Client) : i \in DOMAIN client_data}

\* C1: starting from an absent store, after N >= 1 appends the store is one
\* header row, first and in the fixed column order, followed by exactly the N
\* data rows in append order; as this holds after every append, no append
\* after the first rewrites or repeats the header or touches an earlier row.
C1_FreshStoreOneHeaderThenRows ==
    (~store0.exists /\ Len(client_data) >= 1) =>
        /\ store.exists
        /\ Len(store.lines) = Len(client_data) + 1
        /\ store.lines[1] = ExpectedHeader
        /\ \A i \in DOMAIN client_data : store.lines[i + 1] = Row(client_data[i])
C1_Witness ==
    /\ ~store0.exists
    /\ Len(client_data) = 2
    /\ Len(store.lines) = 3

\* C2: generate_graph is called once, after the input loop has ended, and has
\* returned before any create_report call; no report is made before or during
\* the render, and every report made shows the image as the render left it.
C2_RenderOnceBeforeReports ==
    /\ graphCalls <= 1
    /\ pc \in LoopStates \cup {"graph"} => graphCalls = 0 /\ reportCalls = 0
    /\ pc \in {"reports", "done", "crashed"} => graphCalls = 1
    /\ pc \in {"reports", "done"} => graphReturns = 1
    /\ reportCalls > 0 =>
          /\ graphReturns = 1
          /\ \A p \in DOMAIN reports :
                /\ reports[p].graph = image.exists
                /\ reports[p].chart = image.chart
C2_Witness ==
    /\ pc = "done"
    /\ reportCalls = 2
    /\ image # image0
    /\ \A p \in DOMAIN reports : reports[p].graph

\* C3: a session that accepted N submissions ends with N report files under
\* Reports/, one for each submission of this run and none for an earlier
\* row of the store, all embedding the same chart image.
C3_OneReportPerSubmission ==
    pc = "done" =>
        /\ Cardinality(DOMAIN reports) = Len(client_data)
        /\ DOMAIN reports = PathsOfThisRun
        /\ \A p, q \in DOMAIN reports : reports[p].chart = reports[q].chart

\* The first line of the store that generate_graph read lacks "Client"
ReadBackLacksClient ==
    /\ last.op = "generate_graph"
    /\ last.store.exists
    /\ last.store.lines # <<>>
    /\ \A i \in DOMAIN last.store.lines[1] : last.store.lines[1][i] # "Client"

\* C5: when the store read back lacks the Client column header, the renderer
\* reports the error before reading any column, returns leaving the chart
\* image as it was, and the session goes on to its reports instead of crashing.
C5_MissingClientReportedNoCrash ==
    ReadBackLacksClient =>
        /\ last.status = "returned"
        /\ last.read = <<>>
        /\ \E i \in DOMAIN last.out : last.out[i] = MsgNoClient
        /\ image = last.image
        /\ pc \in {"reports", "done"}

\* The part of C5 that holds: a store that parses and lacks the Client column
C5_ParsedStoreWithoutClient ==
    (ReadBackLacksClient /\ ~Ragged(last.store.lines)) =>
        /\ last.status = "returned"
        /\ last.read = <<>>
        /\ \E i \in DOMAIN last.out : last.out[i] = MsgNoClient
        /\ image = last.image
        /\ pc \in {"reports", "done"}

\* The entries of the model that are no number
NonNumeric == {<<"x", "1">>, <<>>, <<"2", "k", "g">>}

\* C6: a non-numeric entry at the Energy, Transport or Waste prompt prints the
\* error and restarts the prompts at Energy, not reaching the Client Name
\* prompt; the accumulator, the store and everything else on disk stay as
\* they were, and the session goes on.
C6_NonNumericRestartsPrompts ==
    [][(pc \in NumericPrompts /\ entered' \in NonNumeric) =>
          /\ pc' = "energy"
          /\ stdout' = stdout \o <<MsgInvalid, MsgEnter>>
          /\ client_data' = client_data
          /\ store' = store
          /\ image' = image /\ reports' = reports]_vars
C6_Witness ==
    /\ pc = "energy"
    /\ entered = <<"2", "k", "g">>
    /\ Len(client_data) = 1
    /\ stdout[Len(stdout) - 1] = MsgInvalid

\* The answer is "yes" once trimmed and lower-cased
SaysYes(text) ==
    \E a, b \in 0..Len(text) :
        /\ a + 3 + b = Len(text)
        /\ \A i \in 1..a : text[i] \in {" ", "\t", "\n"}
        /\ \A i \in (a + 4)..Len(text) : text[i] \in {" ", "\t", "\n"}
        /\ text[a + 1] \in {"y", "Y"}
        /\ text[a + 2] \in {"e", "E"}
        /\ text[a + 3] \in {"s", "S"}

\* The loop control of C7: another iteration exactly on "yes", otherwise the
\* render comes next, and no prompt is ever shown after the loop has ended
C7_LoopControl ==
    [][/\ pc = "continue" => ((pc' = "energy") <=> SaysYes(entered'))
       /\ (pc = "continue" /\ ~SaysYes(entered')) => pc' = "graph"
       /\ pc \notin LoopStates => pc' \notin LoopStates]_vars

\* C7: after an accepted submission the loop runs again exactly when the
\* answer, trimmed and lower-cased, is "yes"; any other answer ends the loop,
\* and from there the session goes through the render and the reports to its
\* end without prompting again.
C7_YesContinuesElseRenderReportsEnd ==
    [][/\ pc = "continue" => ((pc' = "energy") <=> SaysYes(entered'))
       /\ (pc = "continue" /\ ~SaysYes(entered')) => pc' = "graph"
       /\ pc \in {"graph", "reports"} => pc' \in {"reports", "done"}]_vars

C9_FootprintIsTheLinearFormula ==
    \A i \in DOMAIN client_data :
        LET r == client_data[i]
        IN  /\ r.total_footprint =
                   233 * r.energy_kwh + 120 * r.transport_km + 500 * r.waste_kg
            /\ (r.energy_kwh = 10000 /\ r.transport_km = 5000 /\ r.waste_kg = 2000) =>
                   /\ r.total_footprint = 3930000
                   /\ Row(r)[5] = "3.93"
                   /\ ReportText(r)[6] = "Footprint: 3.93 kg CO2"
            /\ \E k \in DOMAIN store.lines : store.lines[k] = Row(r)
C9_Witness ==
    \E i \in DOMAIN client_data :
        /\ client_data[i].Client = "Acme"
        /\ client_data[i].energy_kwh = 10000
        /\ client_data[i].transport_km = 5000
        /\ client_data[i].waste_kg = 2000
        /\ store.lines[Len(store.lines)] = <<"Acme", "10.0", "5.0", "2.0", "3.93">>

-----------------------------------------------------------------------------
(* The functions called directly, as an importing program or a test does *)

\* The records a caller passes
CallRecords ==
    {ClientDetails(n, 10000, 5000, w, calculate_footprint(10000, 5000, w)) :
        n \in Names, w \in {2000, 500}}

UnitInit ==
    /\ store \in InitStores
    /\ image \in InitImages
    /\ dirs = {}
    /\ reports = <<>>
    /\ stdout = <<>>
    /\ pc = "import"
    /\ energy_kwh = 0 /\ transport_km = 0 /\ waste_kg = 0 /\ total_footprint = 0
    /\ client_data = <<>>
    /\ idx = 1
    /\ entered = <<>>
    /\ invalid = 0
    /\ store0 = store /\ image0 = image
    /\ graphCalls = 0 /\ graphReturns = 0 /\ reportCalls = 0
    /\ last = NoCall
    /\ calls = 0
    /\ cpc = <<>> /\ cmode = <<>> /\ crec = <<>> /\ appended = <<>>

\* append_to_csv(rec)
UnitAppend ==
    /\ calls < MaxCalls
    /\ \E rec \in CallRecords :
        /\ store' = AppendToCsv(store, rec)
        /\ stdout' = Append(stdout, AppendMessage(rec))
        /\ last' = [op |-> "append_to_csv", store |-> store, image |-> image,
                    status |-> "returned", out |-> <<AppendMessage(rec)>>,
                    read |-> <<>>]
    /\ calls' = calls + 1
    /\ UNCHANGED <<image, dirs, reports, store0, image0>>
    /\ UNCHANGED sessionVars
    /\ UNCHANGED <<cpc, cmode, crec, appended>>

\* generate_graph()
UnitGraph ==
    /\ calls < MaxCalls
    /\ LET r == GenerateGraph(store, image)
       IN  /\ image' = r.image
           /\ stdout' = stdout \o r.out
           /\ last' = GraphCall(store, image, r)
    /\ calls' = calls + 1
    /\ UNCHANGED <<store, dirs, reports, store0, image0>>
    /\ UNCHANGED sessionVars
    /\ UNCHANGED <<cpc, cmode, crec, appended>>

\* create_report(rec, "Reports/<Client>_report.pdf")
UnitReport ==
    /\ calls < MaxCalls
    /\ \E rec \in CallRecords :
        LET r == CreateReport(rec, ReportPath(rec.Client), image, dirs, reports)
        IN  /\ dirs' = r.dirs
            /\ reports' = r.files
            /\ stdout' = stdout \o r.out
            /\ last' = [op |-> "create_report", store |-> store, image |-> image,
                        status |-> r.status, out |-> r.out, read |-> <<>>]
    /\ calls' = calls + 1
    /\ UNCHANGED <<store, image, store0, image0>>
    /\ UNCHANGED sessionVars
    /\ UNCHANGED <<cpc, cmode, crec, appended>>

UnitNext ==
    \/ UnitAppend
    \/ UnitGraph
    \/ UnitReport

SpecUnit == UnitInit /\ [][UnitNext]_vars

\* C4: generate_graph against a store that is absent or empty reports the
\* no-data condition and returns normally, and the chart image file is left
\* as it was, present or absent.
C4_NoDataLeavesImageAlone ==
    (/\ last.op = "generate_graph"
     /\ (~last.store.exists \/ Len(last.store.lines) <= 1)
     /\ (Len(last.store.lines) = 1 => last.store.lines[1] = ExpectedHeader)) =>
        /\ last.status = "returned"
        /\ \E i \in DOMAIN last.out : last.out[i] = MsgNoData
        /\ image = last.image

\* The part of C4 that holds: the store is absent
C4_AbsentStoreLeavesImageAlone ==
    (last.op = "generate_graph" /\ ~last.store.exists) =>
        /\ last.status = "returned"
        /\ last.out = <<MsgNoData>>
        /\ image = last.image

-----------------------------------------------------------------------------
(* Two sessions appending to the same store.  append_to_csv is three steps:  *)
(* os.path.exists, the open inside to_csv (mode w creates or truncates the  *)
(* file), and the write of the buffered text when to_csv closes the file.   *)
(* A mode-w handle writes from offset 0, over what is there; the model      *)
(* counts the file in lines, so the two lines written replace the first two.*)

Sessions == {1, 2}

\* The stores two sessions can meet: none yet, or one this program wrote
ConcInitStores == {NoFile, File(<<Columns, Row(EarlierRecord)>>)}

ConcInit ==
    /\ store \in ConcInitStores
    /\ image = NoImage
    /\ dirs = {}
    /\ reports = <<>>
    /\ stdout = <<>>
    /\ pc = "two sessions"
    /\ energy_kwh = 0 /\ transport_km = 0 /\ waste_kg = 0 /\ total_footprint = 0
    /\ client_data = <<>>
    /\ idx = 1
    /\ entered = <<>>
    /\ invalid = 0
    /\ store0 = store /\ image0 = image
    /\ graphCalls = 0 /\ graphReturns = 0 /\ reportCalls = 0
    /\ last = NoCall
    /\ calls = 0
    /\ cpc = [p \in Sessions |-> "idle"]
    /\ cmode = [p \in Sessions |-> "a"]
    /\ crec = [p \in Sessions |-> EarlierRecord]
    /\ appended = [p \in Sessions |-> <<>>]

\* df = pd.DataFrame([client_data]); if os.path.exists(CSV_FILE):
ConcCheck(p) ==
    /\ cpc[p] = "idle"
    /\ Len(appended[p]) < MaxAppends
    /\ \E rec \in CallRecords : crec' = [crec EXCEPT ![p] = rec]
    /\ cmode' = [cmode EXCEPT ![p] = OpenMode(store)]
    /\ cpc' = [cpc EXCEPT ![p] = "checked"]
    /\ UNCHANGED <<store, appended>>
    /\ UNCHANGED <<image, dirs, reports, stdout, store0, image0, last, calls>>
    /\ UNCHANGED sessionVars

\* to_csv opens CSV_FILE in the mode chosen
ConcOpen(p) ==
    /\ cpc[p] = "checked"
    /\ store' = IF cmode[p] = "w" THEN File(<<>>) ELSE File(store.lines)
    /\ cpc' = [cpc EXCEPT ![p] = "opened"]
    /\ UNCHANGED <<cmode, crec, appended>>
    /\ UNCHANGED <<image, dirs, reports, stdout, store0, image0, last, calls>>
    /\ UNCHANGED sessionVars

\* to_csv writes its text and closes the file
ConcWrite(p) ==
    /\ cpc[p] = "opened"
    /\ store' = IF cmode[p] = "w"
                THEN File(<<Columns, Row(crec[p])>> \o SubSeq(store.lines, 3, Len(store.lines)))
                ELSE File(Append(store.lines, Row(crec[p])))
    /\ appended' = [appended EXCEPT ![p] = Append(@, crec[p])]
    /\ cpc' = [cpc EXCEPT ![p] = "idle"]
    /\ UNCHANGED <<cmode, crec>>
    /\ UNCHANGED <<image, dirs, reports, stdout, store0, image0, last, calls>>
    /\ UNCHANGED sessionVars

ConcNext ==
    \/ \E p \in Sessions : ConcCheck(p)
    \/ \E p \in Sessions : ConcOpen(p)
    \/ \E p \in Sessions : ConcWrite(p)

SpecConc == ConcInit /\ [][ConcNext]_vars

\* How often a line occurs in a sequence of lines
Occurrences(ls, line) == Cardinality({k \in DOMAIN ls : ls[k] = line})
\* The records whose append is complete
Completed == appended[1] \o appended[2]
MayDifferOnlyInOrder ==
    /\ store.exists
    /\ Len(store.lines) = Len(store0.lines) + Len(Completed) + (IF store0.exists THEN 0 ELSE 1)
    /\ store.lines[1] = ExpectedHeader
    /\ Occurrences(store.lines, ExpectedHeader) = 1
    /\ \A k \in DOMAIN store0.lines : store.lines[k] = store0.lines[k]
    /\ \A i \in DOMAIN Completed :
          Occurrences(store.lines, Row(Completed[i]))
              >= Occurrences(Completed, Completed[i])
                 + Occurrences(store0.lines, Row(Completed[i]))

\* C10 as stated: two sessions appending at once, to a store that exists or
\* does not exist yet, can only disturb the order of the rows: every record
\* either has appended is one whole row of the store, and the header is there
\* once, as the first line.
C10_OnlyOrderSuffers ==
    Completed # <<>> => MayDifferOnlyInOrder

\* C10 amended: the same, for a store that exists when both sessions start.
C10_ExistingStoreOnlyOrderSuffers ==
    (store0.exists /\ Completed # <<>>) => MayDifferOnlyInOrder
C10_Witness ==
    /\ store0.exists
    /\ Len(appended[1]) = 2 /\ Len(appended[2]) = 2
    /\ appended[1][1].Client = "Acme" /\ appended[1][2].Client = "Acme"
    /\ appended[2][1].Client = "Bolt" /\ appended[2][2].Client = "Bolt"
    /\ store.lines[3][1] = "Acme" /\ store.lines[4][1] = "Bolt"
    /\ store.lines[5][1] = "Acme" /\ store.lines[6][1] = "Bolt"

====
